---- MODULE Spec2Model ----
(***************************************************************************)
(* Model of scripts/keep_alive.py: the cookie codec, the cookie login with *)
(* retries (login_with_cookie), the GitHub secret update and the main      *)
(* sequence with its exception handling.  Strings are sequences of         *)
(* one-character strings, so that split/strip/join are computed.           *)
(***************************************************************************)
EXTENDS Integers, Sequences, FiniteSets, TLC

(* ------------------------------ bounds -------------------------------- *)
\* largest max_retries argument explored when login_with_cookie is run alone
MaxRetriesArg == 3

\* most cookie records given to format_cookies when the codec is run alone
MaxRecords == 2
\* longest string given to parse_cookies when the codec is run alone
MaxRawLen == 5

(* ------------------------- program constants -------------------------- *)
\* default of the max_retries parameter
DefaultMaxRetries == 2
\* wait = 5 * (attempt + 1)
BackoffUnit == 5

\* os.environ.get(...) of an unset variable
None == <<"<None>">>

\* Python truthiness of an optional string: neither None nor ''
Truthy(s) == s # None /\ s # <<>>

Whitespace == {" "}

\* the literal '/login' tested against page.url
LoginMarker == <<"/", "l", "o", "g", "i", "n">>
\* ZEABUR_DASHBOARD_URL (path part) and the URL the site redirects to
ZEABUR_DASHBOARD_URL == <<"/", "p", "r", "o", "j", "e", "c", "t", "s">>
LoginRedirectUrl == <<"/", "l", "o", "g", "i", "n", "?", "r">>

\* the literal 'zeabur.com' tested against a cookie's domain
DomainMarker == <<"z", "e", "a", "b", "u", "r", ".", "c", "o", "m">>
\* the domain parse_cookies gives to every record
CookieDomain == <<".">> \o DomainMarker
ForeignDomain == <<".", "o", "t", "h", "e", "r", ".", "i", "o">>

(* --------------------------- string helpers --------------------------- *)
\* Python: sub in s
IsSubstring(sub, s) ==
    \E i \in 0..(Len(s) - Len(sub)) : SubSeq(s, i + 1, i + Len(sub)) = sub

\* Python: s.split(sep) for a one-character separator
RECURSIVE Split(_, _)
Split(s, sep) ==
    IF \A i \in 1..Len(s) : s[i] # sep
    THEN <<s>>
    ELSE LET i == CHOOSE k \in 1..Len(s) :
                      s[k] = sep /\ \A j \in 1..(k - 1) : s[j] # sep
         IN  <<SubSeq(s, 1, i - 1)>> \o Split(SubSeq(s, i + 1, Len(s)), sep)

\* variant: split without the maxsplit argument
SplitEvery(s, sep) == Split(s, sep)

\* Python: s.split(sep, 1)
SplitFirst(s, sep) ==
    IF \A i \in 1..Len(s) : s[i] # sep
    THEN <<s>>
    ELSE LET i == CHOOSE k \in 1..Len(s) :
                      s[k] = sep /\ \A j \in 1..(k - 1) : s[j] # sep
         IN  <<SubSeq(s, 1, i - 1), SubSeq(s, i + 1, Len(s))>>

\* Python: s.strip()
RECURSIVE Strip(_)
Strip(s) ==
    IF s = <<>> THEN s
    ELSE IF s[1] \in Whitespace THEN Strip(Tail(s))
    ELSE IF s[Len(s)] \in Whitespace THEN Strip(SubSeq(s, 1, Len(s) - 1))
    ELSE s

\* Python: sep.join(parts)
RECURSIVE Join(_, _)
Join(parts, sep) ==
    IF parts = <<>> THEN <<>>
    ELSE IF Len(parts) = 1 THEN parts[1]
    ELSE parts[1] \o sep \o Join(Tail(parts), sep)

(* ---------------------------- cookie codec ---------------------------- *)
\* variant: name and value are not stripped
CookieOfSegmentUnstripped(cookie) ==
    LET parts == SplitFirst(Strip(cookie), "=")
    IN  IF Len(parts) = 2
        THEN << [name |-> parts[1], value |-> parts[2],
                 domain |-> CookieDomain, path |-> <<"/">>] >>
        ELSE <<>>

\* the record appended for one segment, or nothing when it has no '='
CookieOfSegment(cookie) ==
    LET parts == SplitFirst(Strip(cookie), "=")
    IN  IF Len(parts) = 2
        THEN << [name |-> Strip(parts[1]), value |-> Strip(parts[2]),
                 domain |-> CookieDomain, path |-> <<"/">>] >>
        ELSE <<>>

RECURSIVE ParseSegments(_)
ParseSegments(segs) ==
    IF segs = <<>> THEN <<>>
    ELSE CookieOfSegment(Head(segs)) \o ParseSegments(Tail(segs))

parse_cookies(cookie_string) == ParseSegments(Split(cookie_string, ";"))

RECURSIVE FormatPairs(_)
FormatPairs(cookies) ==
    IF cookies = <<>> THEN <<>>
    ELSE LET c == Head(cookies)
         IN  (IF IsSubstring(DomainMarker, c.domain)
              THEN << c.name \o <<"=">> \o c.value >>
              ELSE <<>>) \o FormatPairs(Tail(cookies))

format_cookies(cookies) == Join(FormatPairs(cookies), <<";", " ">>)

(* ------------------------------- state -------------------------------- *)
VARIABLES
    cookie_string,   \* ZEABUR_COOKIE
    repo_token,      \* REPO_TOKEN
    repo,            \* GITHUB_REPOSITORY
    tg_bot_token,    \* TG_BOT_TOKEN
    tg_chat_id,      \* TG_CHAT_ID
    max_retries,     \* argument of login_with_cookie
    pc,              \* position of the control flow
    exc,             \* exception in flight: "none", "Exception", "SystemExit"
    raisedAt,        \* the steps at which an exception has been raised so far
    exitCode,        \* process exit status, -1 while the process runs
    browser,         \* "none", "open", "closed"
    hasContext,      \* browser.new_context() returned
    jar,             \* cookies of the browsing context
    openPages,       \* pages of the context that are open
    nextPageId,      \* identity of the next page context.new_page() creates
    attempt,         \* loop variable of login_with_cookie
    page,            \* local variable page of login_with_cookie (0: unbound)
    ret,             \* value returned by login_with_cookie
    login_page,      \* main: page
    login_success,   \* main: login_success
    new_cookie_string, \* main: new_cookie_string
    key_data,        \* update_github_secret: key_data
    msg_sent,        \* main: msg_sent  ("unset", "True", "False")
    photo_sent,      \* main: photo_sent
    urls,            \* page.url read by each attempt that navigated without error
    outcomes,        \* per-attempt outcome tags, in order
    sleeps,          \* arguments of time.sleep, in order
    events,          \* externally visible calls, in order
    decoded          \* records returned by parse_cookies when the codec is run alone

envVars == <<cookie_string, repo_token, repo, tg_bot_token, tg_chat_id, max_retries>>
ctlVars == <<pc, exc, raisedAt, exitCode>>
browserVars == <<browser, hasContext, jar, openPages, nextPageId>>
loginVars == <<attempt, page, ret, urls, outcomes, sleeps>>
mainVars == <<login_page, login_success, new_cookie_string, key_data, msg_sent, photo_sent>>
vars == <<envVars, ctlVars, browserVars, loginVars, mainVars, events, decoded>>

Ev(kind) == [kind |-> kind]

(* --------------------------- the environment -------------------------- *)
\* cookie headers the secret may hold
CookieStrings ==
    { <<"s", "=", "1">>,                                \* s=1
      <<"x">>,                                          \* no '=': no record
      <<" ", "s", "=", "1", ";", "u", "=", "2", ";">> } \* ' s=1;u=2;'

EnvStrings == {None, <<>>, <<"t">>}

Repositories ==
    { <<>>, <<"o", "/", "r">>, <<"o", "r">>, <<"o", "/", "r", "/", "x">> }

\* what the site sets during one navigation
RenewedCookie ==
    [name |-> <<"s">>, value |-> <<"9">>, domain |-> CookieDomain, path |-> <<"/">>]
ForeignCookie ==
    [name |-> <<"f">>, value |-> <<"7">>, domain |-> ForeignDomain, path |-> <<"/">>]
ServerCookies == { <<>>, <<RenewedCookie>>, <<ForeignCookie>> }

\* public keys the secret store may answer with
KeyIds == {"k1", "k2"}

\* the jar after storing one cookie: same (name, domain, path) is replaced
StoreCookie(j, c) ==
    IF \E i \in 1..Len(j) : j[i].name = c.name /\ j[i].domain = c.domain /\ j[i].path = c.path
    THEN [i \in 1..Len(j) |->
            IF j[i].name = c.name /\ j[i].domain = c.domain /\ j[i].path = c.path
            THEN c ELSE j[i]]
    ELSE Append(j, c)

RECURSIVE StoreCookies(_, _)
StoreCookies(j, cs) ==
    IF cs = <<>> THEN j ELSE StoreCookies(StoreCookie(j, Head(cs)), Tail(cs))

(* ------------------------- login_with_cookie -------------------------- *)
\* '/login' not in page.url
IsAuthenticated(url) == ~IsSubstring(LoginMarker, url)

\* variant: the same wait before every retry
BackoffConstant(a) == BackoffUnit

\* wait = 5 * (attempt + 1)
Backoff(a) == BackoffUnit * (a + 1)

\* raise of an Exception by the step at pc
Throw ==
    /\ exc' = "Exception"
    /\ raisedAt' = raisedAt \cup {pc}

\* an exception leaves login_with_cookie
LoginRaise ==
    /\ pc' = "login_raised"
    /\ Throw

\* context.add_cookies(parse_cookies(cookie_string)); for attempt in range(...)
AddCookies ==
    /\ pc = "add_cookies"
    /\ \/ /\ jar' = StoreCookies(jar, parse_cookies(cookie_string))
          /\ events' = Append(events, Ev("add_cookies"))
          /\ attempt' = 0
          /\ pc' = IF 0 < max_retries + 1 THEN "new_page" ELSE "exhausted"
          /\ UNCHANGED <<exc, raisedAt>>
       \/ /\ LoginRaise
          /\ UNCHANGED <<jar, events, attempt>>
    /\ UNCHANGED <<envVars, decoded, exitCode, browser, hasContext, openPages, nextPageId,
                   page, ret, urls, outcomes, sleeps, mainVars>>

\* variant: the cookies are injected again at the start of every attempt
NewPageReinjects ==
    /\ pc = "new_page"
    /\ \/ /\ jar' = StoreCookies(jar, parse_cookies(cookie_string))
          /\ page' = nextPageId
          /\ openPages' = openPages \cup {nextPageId}
          /\ nextPageId' = nextPageId + 1
          /\ events' = events \o <<Ev("add_cookies"), Ev("new_page")>>
          /\ pc' = "goto"
          /\ UNCHANGED <<exc, raisedAt>>
       \/ /\ LoginRaise
          /\ UNCHANGED <<jar, page, openPages, nextPageId, events>>
    /\ UNCHANGED <<envVars, decoded, exitCode, browser, hasContext, attempt, ret,
                   urls, outcomes, sleeps, mainVars>>

\* page = context.new_page()
NewPage ==
    /\ pc = "new_page"
    /\ \/ /\ page' = nextPageId
          /\ openPages' = openPages \cup {nextPageId}
          /\ nextPageId' = nextPageId + 1
          /\ events' = Append(events, Ev("new_page"))
          /\ pc' = "goto"
          /\ UNCHANGED <<exc, raisedAt>>
       \/ /\ LoginRaise
          /\ UNCHANGED <<page, openPages, nextPageId, events>>
    /\ UNCHANGED <<envVars, decoded, exitCode, browser, hasContext, jar, attempt, ret,
                   urls, outcomes, sleeps, mainVars>>

\* page.goto(...); page.wait_for_timeout(3000); if '/login' not in page.url
Goto ==
    /\ pc = "goto"
    /\ events' = Append(events, Ev("goto"))
    /\ \E set \in ServerCookies :
          jar' = StoreCookies(jar, set)
    /\ \/ \E url \in {ZEABUR_DASHBOARD_URL, LoginRedirectUrl} :
            /\ urls' = Append(urls, url)
            /\ IF IsAuthenticated(url)
               THEN /\ outcomes' = Append(outcomes, "authenticated")
                    /\ ret' = [page |-> page, ok |-> TRUE]
                    /\ pc' = "login_return"
               ELSE /\ outcomes' = Append(outcomes, "redirected")
                    /\ ret' = ret
                    /\ pc' = "close_redirected"
       \/ /\ outcomes' = Append(outcomes, "errored")
          /\ pc' = "close_errored"
          /\ UNCHANGED <<urls, ret>>
    /\ UNCHANGED <<envVars, decoded, exc, raisedAt, exitCode, browser, hasContext, openPages, nextPageId,
                   attempt, page, sleeps, mainVars>>

\* else: page.close()   (inside the try: its exception is caught at line 124)
CloseRedirected ==
    /\ pc = "close_redirected"
    /\ \/ /\ openPages' = openPages \ {page}
          /\ pc' = "backoff"
       \/ /\ pc' = "close_errored"
          /\ UNCHANGED openPages
    /\ events' = Append(events, Ev("page_close"))
    /\ UNCHANGED <<envVars, decoded, exc, raisedAt, exitCode, browser, hasContext, jar, nextPageId,
                   loginVars, mainVars>>

\* variant: the except branch does not close the page
CloseErroredLeak ==
    /\ pc = "close_errored"
    /\ pc' = "backoff"
    /\ UNCHANGED <<envVars, decoded, exc, raisedAt, exitCode, browserVars,
                   loginVars, mainVars, events>>

\* except Exception: page.close()
CloseErrored ==
    /\ pc = "close_errored"
    /\ \/ /\ openPages' = openPages \ {page}
          /\ pc' = "backoff"
          /\ UNCHANGED <<exc, raisedAt>>
       \/ /\ LoginRaise
          /\ UNCHANGED openPages
    /\ events' = Append(events, Ev("page_close"))
    /\ UNCHANGED <<envVars, decoded, exitCode, browser, hasContext, jar, nextPageId,
                   loginVars, mainVars>>

\* variant: the sleep is not guarded by attempt < max_retries
BackoffStepUnguarded ==
    /\ pc = "backoff"
    /\ sleeps' = Append(sleeps, Backoff(attempt))
    /\ events' = Append(events, Ev("sleep"))
    /\ attempt' = attempt + 1
    /\ pc' = IF attempt + 1 < max_retries + 1 THEN "new_page" ELSE "exhausted"
    /\ UNCHANGED <<envVars, decoded, exc, raisedAt, exitCode, browserVars, page, ret, urls,
                   outcomes, mainVars>>

\* if attempt < max_retries: time.sleep(5 * (attempt + 1)); next iteration
BackoffStep ==
    /\ pc = "backoff"
    /\ IF attempt < max_retries
       THEN /\ sleeps' = Append(sleeps, Backoff(attempt))
            /\ events' = Append(events, Ev("sleep"))
       ELSE UNCHANGED <<sleeps, events>>
    /\ attempt' = attempt + 1
    /\ pc' = IF attempt + 1 < max_retries + 1 THEN "new_page" ELSE "exhausted"
    /\ UNCHANGED <<envVars, decoded, exc, raisedAt, exitCode, browserVars, page, ret, urls, outcomes,
                   mainVars>>

\* variant: the page of the last attempt is returned
ExhaustedReturnsLastPage ==
    /\ pc = "exhausted"
    /\ ret' = [page |-> page, ok |-> FALSE]
    /\ pc' = "login_return"
    /\ UNCHANGED <<envVars, decoded, exc, raisedAt, exitCode, browserVars, attempt, page,
                   urls, outcomes, sleeps, mainVars, events>>

\* return context.new_page(), False
Exhausted ==
    /\ pc = "exhausted"
    /\ \/ /\ ret' = [page |-> nextPageId, ok |-> FALSE]
          /\ openPages' = openPages \cup {nextPageId}
          /\ nextPageId' = nextPageId + 1
          /\ events' = Append(events, Ev("new_page"))
          /\ pc' = "login_return"
          /\ UNCHANGED <<exc, raisedAt>>
       \/ /\ LoginRaise
          /\ UNCHANGED <<ret, openPages, nextPageId, events>>
    /\ UNCHANGED <<envVars, decoded, exitCode, browser, hasContext, jar, attempt, page,
                   urls, outcomes, sleeps, mainVars>>

LoginNext ==
    \/ AddCookies
    \/ NewPage
    \/ Goto
    \/ CloseRedirected
    \/ CloseErrored
    \/ BackoffStep
    \/ Exhausted

\* login_with_cookie called on a fresh context with any max_retries >= 0
LoginInit ==
    /\ cookie_string \in CookieStrings
    /\ repo_token = None /\ repo = <<>> /\ tg_bot_token = None /\ tg_chat_id = None
    /\ max_retries \in 0..MaxRetriesArg
    /\ pc = "add_cookies" /\ exc = "none" /\ raisedAt = {} /\ exitCode = -1
    /\ browser = "open" /\ hasContext = TRUE
    /\ jar = <<>> /\ openPages = {} /\ nextPageId = 1
    /\ attempt = 0 /\ page = 0 /\ ret = [page |-> 0, ok |-> FALSE]
    /\ urls = <<>> /\ outcomes = <<>> /\ sleeps = <<>>
    /\ login_page = 0 /\ login_success = FALSE /\ new_cookie_string = <<>>
    /\ key_data = "none" /\ msg_sent = "unset" /\ photo_sent = "unset"
    /\ events = <<>>
    /\ decoded = <<>>

LoginSpec == LoginInit /\ [][LoginNext]_vars

(* ------------------------------ notifier ------------------------------ *)
\* variant: one of the two settings is enough
NotifierConfiguredEither == Truthy(tg_bot_token) \/ Truthy(tg_chat_id)

\* if tg_bot_token and tg_chat_id
NotifierConfigured == Truthy(tg_bot_token) /\ Truthy(tg_chat_id)

\* send_telegram_message(...): one POST, True or False, never an exception
send_telegram_message(message, result) ==
    events' = Append(events, [kind |-> "text", message |-> message, ok |-> result])

\* send_telegram_photo(...): one POST of the screenshot, True or False
send_telegram_photo(result) ==
    events' = Append(events, [kind |-> "photo", ok |-> result])

(* ------------------------ update_github_secret ------------------------ *)
\* SealedBox(public key).encrypt(secret_value), base64-encoded
Seal(key, secret_value) == [sealed_for |-> key, plaintext |-> secret_value]

\* requests.get(key_url).raise_for_status(); key_data = json(); encrypt
GhGet ==
    /\ pc = "gh_get"
    /\ LET parts == Split(repo, "/")
       IN  events' = Append(events, [kind |-> "get", owner |-> parts[1], repo |-> parts[2]])
    /\ \/ \E k \in KeyIds :
            /\ key_data' = k
            /\ pc' = "gh_put"
            /\ UNCHANGED <<exc, raisedAt>>
       \/ \* non-2xx status, network error, or a key that cannot be used
          /\ Throw
          /\ pc' = "handler"
          /\ UNCHANGED key_data
    /\ UNCHANGED <<envVars, decoded, exitCode, browserVars, loginVars, login_page, login_success,
                   new_cookie_string, msg_sent, photo_sent>>

\* variant: a failed PUT is logged and the run goes on
GhPutFailureIgnored ==
    /\ pc = "gh_put"
    /\ events' = Append(events,
           [kind |-> "put", secret_name |-> "ZEABUR_COOKIE",
            encrypted_value |-> Seal(key_data, new_cookie_string),
            key_id |-> key_data])
    /\ \/ UNCHANGED raisedAt
       \/ raisedAt' = raisedAt \cup {pc}
    /\ pc' = "notify"
    /\ UNCHANGED <<envVars, decoded, exc, exitCode, browserVars, loginVars, mainVars>>

\* variant: the envelope names a fixed key instead of the one just fetched
GhPutStaleKey ==
    /\ pc = "gh_put"
    /\ events' = Append(events,
           [kind |-> "put", secret_name |-> "ZEABUR_COOKIE",
            encrypted_value |-> Seal(key_data, new_cookie_string),
            key_id |-> "k1"])
    /\ \/ /\ pc' = "notify"
          /\ UNCHANGED <<exc, raisedAt>>
       \/ /\ Throw
          /\ pc' = "handler"
    /\ UNCHANGED <<envVars, decoded, exitCode, browserVars, loginVars, mainVars>>

\* requests.put(update_url, json={encrypted_value, key_id}).raise_for_status()
GhPut ==
    /\ pc = "gh_put"
    /\ events' = Append(events,
           [kind |-> "put", secret_name |-> "ZEABUR_COOKIE",
            encrypted_value |-> Seal(key_data, new_cookie_string),
            key_id |-> key_data])
    /\ \/ /\ pc' = "notify"
          /\ UNCHANGED <<exc, raisedAt>>
       \/ /\ Throw
          /\ pc' = "handler"
    /\ UNCHANGED <<envVars, decoded, exitCode, browserVars, loginVars, mainVars>>

(* -------------------------------- main -------------------------------- *)
\* variant: only an unset variable is rejected (cookie_string is None)
StartNoneOnly ==
    /\ pc = "start"
    /\ IF cookie_string = None
       THEN /\ exc' = "SystemExit"
            /\ exitCode' = 1
            /\ pc' = "done"
            /\ UNCHANGED raisedAt
       ELSE /\ pc' = "launch"
            /\ UNCHANGED <<exc, raisedAt, exitCode>>
    /\ UNCHANGED <<envVars, decoded, browserVars, loginVars, mainVars, events>>

\* os.environ.get(...); if not cookie_string: sys.exit(1)
Start ==
    /\ pc = "start"
    /\ IF ~Truthy(cookie_string)
       THEN /\ exc' = "SystemExit"
            /\ exitCode' = 1
            /\ pc' = "done"
            /\ UNCHANGED raisedAt
       ELSE /\ pc' = "launch"
            /\ UNCHANGED <<exc, raisedAt, exitCode>>
    /\ UNCHANGED <<envVars, decoded, browserVars, loginVars, mainVars, events>>

\* with sync_playwright() as p: browser = p.chromium.launch(headless=True)
Launch ==
    /\ pc = "launch"
    /\ \/ /\ browser' = "open"
          /\ events' = Append(events, Ev("launch"))
          /\ pc' = "new_context"
          /\ UNCHANGED <<exc, raisedAt>>
       \/ /\ Throw
          /\ pc' = "pw_exit"
          /\ UNCHANGED <<browser, events>>
    /\ UNCHANGED <<envVars, decoded, exitCode, hasContext, jar, openPages, nextPageId,
                   loginVars, mainVars>>

\* context = browser.new_context()   (before the try statement)
NewContext ==
    /\ pc = "new_context"
    /\ \/ /\ hasContext' = TRUE
          /\ pc' = "add_cookies"
          /\ UNCHANGED <<exc, raisedAt>>
       \/ /\ Throw
          /\ pc' = "pw_exit"
          /\ UNCHANGED hasContext
    /\ UNCHANGED <<envVars, decoded, exitCode, browser, jar, openPages, nextPageId,
                   loginVars, mainVars, events>>

\* page, login_success = login_with_cookie(context, cookie_string)
LoginReturn ==
    /\ pc = "login_return"
    /\ login_page' = ret.page
    /\ login_success' = ret.ok
    /\ pc' = IF ret.ok THEN "screenshot" ELSE "login_failed"
    /\ UNCHANGED <<envVars, decoded, exc, raisedAt, exitCode, browserVars, loginVars, new_cookie_string,
                   key_data, msg_sent, photo_sent, events>>

\* the exception of login_with_cookie reaches except Exception
LoginRaised ==
    /\ pc = "login_raised"
    /\ pc' = "handler"
    /\ UNCHANGED <<envVars, decoded, exc, raisedAt, exitCode, browserVars, loginVars, mainVars, events>>

\* variant: the exit after the failure message is caught by except Exception
LoginFailedExitCaught ==
    /\ pc = "login_failed"
    /\ IF NotifierConfigured
       THEN \E r \in BOOLEAN : send_telegram_message("login_failed", r)
       ELSE UNCHANGED events
    /\ exc' = "Exception"
    /\ pc' = "handler"
    /\ UNCHANGED <<envVars, decoded, raisedAt, exitCode, browserVars, loginVars, mainVars>>

\* if not login_success: ...send_telegram_message(error_msg); sys.exit(1)
LoginFailed ==
    /\ pc = "login_failed"
    /\ IF NotifierConfigured
       THEN \E r \in BOOLEAN : send_telegram_message("login_failed", r)
       ELSE UNCHANGED events
    /\ exc' = "SystemExit"
    /\ pc' = "finally"
    /\ UNCHANGED <<envVars, decoded, raisedAt, exitCode, browserVars, loginVars, mainVars>>

\* page.screenshot(path=SCREENSHOT_PATH, full_page=False)
Screenshot ==
    /\ pc = "screenshot"
    /\ \/ /\ events' = Append(events, [kind |-> "screenshot", page |-> login_page])
          /\ pc' = "harvest"
          /\ UNCHANGED <<exc, raisedAt>>
       \/ /\ Throw
          /\ pc' = "handler"
          /\ UNCHANGED events
    /\ UNCHANGED <<envVars, decoded, exitCode, browserVars, loginVars, mainVars>>

\* variant: the input string is published instead of the harvested cookies
HarvestInputString ==
    /\ pc = "harvest"
    /\ \/ /\ new_cookie_string' = cookie_string
          /\ pc' = IF Truthy(repo_token) /\ Truthy(repo) /\ Truthy(cookie_string)
                   THEN "split" ELSE "notify"
          /\ UNCHANGED <<exc, raisedAt>>
       \/ /\ Throw
          /\ pc' = "handler"
          /\ UNCHANGED new_cookie_string
    /\ UNCHANGED <<envVars, decoded, exitCode, browserVars, loginVars, login_page, login_success,
                   key_data, msg_sent, photo_sent, events>>

\* variant: the token is not part of the condition
HarvestNoTokenCheck ==
    /\ pc = "harvest"
    /\ \/ /\ new_cookie_string' = format_cookies(jar)
          /\ pc' = IF Truthy(repo) /\ Truthy(format_cookies(jar))
                   THEN "split" ELSE "notify"
          /\ UNCHANGED <<exc, raisedAt>>
       \/ /\ Throw
          /\ pc' = "handler"
          /\ UNCHANGED new_cookie_string
    /\ UNCHANGED <<envVars, decoded, exitCode, browserVars, loginVars, login_page, login_success,
                   key_data, msg_sent, photo_sent, events>>

\* new_cookie_string = format_cookies(context.cookies());
\* if repo_token and repo and new_cookie_string
Harvest ==
    /\ pc = "harvest"
    /\ \/ /\ new_cookie_string' = format_cookies(jar)
          /\ pc' = IF Truthy(repo_token) /\ Truthy(repo) /\ Truthy(format_cookies(jar))
                   THEN "split" ELSE "notify"
          /\ UNCHANGED <<exc, raisedAt>>
       \/ /\ Throw
          /\ pc' = "handler"
          /\ UNCHANGED new_cookie_string
    /\ UNCHANGED <<envVars, decoded, exitCode, browserVars, loginVars, login_page, login_success,
                   key_data, msg_sent, photo_sent, events>>

\* owner, repo_name = repo.split('/')   (ValueError unless exactly two parts)
SplitRepo ==
    /\ pc = "split"
    /\ IF Len(Split(repo, "/")) = 2
       THEN /\ pc' = "gh_get"
            /\ UNCHANGED <<exc, raisedAt>>
       ELSE /\ Throw
            /\ pc' = "handler"
    /\ UNCHANGED <<envVars, decoded, exitCode, browserVars, loginVars, mainVars, events>>

\* if tg_bot_token and tg_chat_id: ... else: print(skip)
Notify ==
    /\ pc = "notify"
    /\ pc' = IF NotifierConfigured THEN "send_msg" ELSE "finally"
    /\ UNCHANGED <<envVars, decoded, exc, raisedAt, exitCode, browserVars, loginVars, mainVars, events>>

\* variant: a failed text message raises
SendMsgRaises ==
    /\ pc = "send_msg"
    /\ \/ /\ send_telegram_message("success", TRUE)
          /\ msg_sent' = "True"
          /\ pc' = "send_photo"
          /\ UNCHANGED <<exc, raisedAt>>
       \/ /\ send_telegram_message("success", FALSE)
          /\ Throw
          /\ pc' = "handler"
          /\ UNCHANGED msg_sent
    /\ UNCHANGED <<envVars, decoded, exitCode, browserVars, loginVars, login_page,
                   login_success, new_cookie_string, key_data, photo_sent>>

\* msg_sent = send_telegram_message(tg_bot_token, tg_chat_id, message)
SendMsg ==
    /\ pc = "send_msg"
    /\ \E r \in BOOLEAN :
          /\ send_telegram_message("success", r)
          /\ msg_sent' = IF r THEN "True" ELSE "False"
    /\ pc' = "send_photo"
    /\ UNCHANGED <<envVars, decoded, exc, raisedAt, exitCode, browserVars, loginVars, login_page,
                   login_success, new_cookie_string, key_data, photo_sent>>

\* variant: a failed image upload raises
SendPhotoRaises ==
    /\ pc = "send_photo"
    /\ \/ /\ send_telegram_photo(TRUE)
          /\ photo_sent' = "True"
          /\ pc' = "finally"
          /\ UNCHANGED <<exc, raisedAt>>
       \/ /\ send_telegram_photo(FALSE)
          /\ Throw
          /\ pc' = "handler"
          /\ UNCHANGED photo_sent
    /\ UNCHANGED <<envVars, decoded, exitCode, browserVars, loginVars, login_page,
                   login_success, new_cookie_string, key_data, msg_sent>>

\* photo_sent = send_telegram_photo(tg_bot_token, tg_chat_id, SCREENSHOT_PATH, ...)
SendPhoto ==
    /\ pc = "send_photo"
    /\ \E r \in BOOLEAN :
          /\ send_telegram_photo(r)
          /\ photo_sent' = IF r THEN "True" ELSE "False"
    /\ pc' = "finally"
    /\ UNCHANGED <<envVars, decoded, exc, raisedAt, exitCode, browserVars, loginVars, login_page,
                   login_success, new_cookie_string, key_data, msg_sent>>

\* variant: the handler reports and does not exit
HandlerNoExit ==
    /\ pc = "handler"
    /\ exc = "Exception"
    /\ IF NotifierConfigured
       THEN \E r \in BOOLEAN : send_telegram_message("exec_failed", r)
       ELSE UNCHANGED events
    /\ exc' = "none"
    /\ pc' = "finally"
    /\ UNCHANGED <<envVars, decoded, raisedAt, exitCode, browserVars, loginVars, mainVars>>

\* except Exception as e: ...send_telegram_message(error_msg); sys.exit(1)
Handler ==
    /\ pc = "handler"
    /\ exc = "Exception"
    /\ IF NotifierConfigured
       THEN \E r \in BOOLEAN : send_telegram_message("exec_failed", r)
       ELSE UNCHANGED events
    /\ exc' = "SystemExit"
    /\ pc' = "finally"
    /\ UNCHANGED <<envVars, decoded, raisedAt, exitCode, browserVars, loginVars, mainVars>>

\* variant: the finally block does not close the browser
FinallyWithoutClose ==
    /\ pc = "finally"
    /\ pc' = "pw_exit"
    /\ UNCHANGED <<envVars, decoded, exc, raisedAt, exitCode, browserVars, loginVars,
                   mainVars, events>>

\* finally: browser.close()   (closes the browser with its contexts and pages)
Finally ==
    /\ pc = "finally"
    /\ events' = Append(events, Ev("browser_close"))
    /\ \/ /\ browser' = "closed"
          /\ openPages' = {}
          /\ UNCHANGED <<exc, raisedAt>>
       \/ /\ Throw
          /\ UNCHANGED <<browser, openPages>>
    /\ pc' = "pw_exit"
    /\ UNCHANGED <<envVars, decoded, exitCode, hasContext, jar, nextPageId, loginVars, mainVars>>

\* end of the with block, then the interpreter exits: 0 when nothing is in
\* flight, 1 for SystemExit(1) and for an uncaught exception
PwExit ==
    /\ pc = "pw_exit"
    /\ \E raised \in BOOLEAN :
          /\ exc' = IF raised THEN "Exception" ELSE exc
          /\ raisedAt' = IF raised THEN raisedAt \cup {pc} ELSE raisedAt
          /\ exitCode' = IF ~raised /\ exc = "none" THEN 0 ELSE 1
    /\ events' = Append(events, Ev("playwright_stop"))
    /\ pc' = "done"
    /\ UNCHANGED <<envVars, decoded, browserVars, loginVars, mainVars>>

Init ==
    /\ cookie_string \in {None, <<>>} \cup CookieStrings
    /\ repo_token \in EnvStrings
    /\ repo \in Repositories
    /\ tg_bot_token \in EnvStrings
    /\ tg_chat_id \in EnvStrings
    /\ max_retries = DefaultMaxRetries
    /\ pc = "start" /\ exc = "none" /\ raisedAt = {} /\ exitCode = -1
    /\ browser = "none" /\ hasContext = FALSE
    /\ jar = <<>> /\ openPages = {} /\ nextPageId = 1
    /\ attempt = 0 /\ page = 0 /\ ret = [page |-> 0, ok |-> FALSE]
    /\ urls = <<>> /\ outcomes = <<>> /\ sleeps = <<>>
    /\ login_page = 0 /\ login_success = FALSE /\ new_cookie_string = <<>>
    /\ key_data = "none" /\ msg_sent = "unset" /\ photo_sent = "unset"
    /\ events = <<>>
    /\ decoded = <<>>

Next ==
    \/ Start
    \/ Launch
    \/ NewContext
    \/ AddCookies
    \/ NewPage
    \/ Goto
    \/ CloseRedirected
    \/ CloseErrored
    \/ BackoffStep
    \/ Exhausted
    \/ LoginReturn
    \/ LoginRaised
    \/ LoginFailed
    \/ Screenshot
    \/ Harvest
    \/ SplitRepo
    \/ GhGet
    \/ GhPut
    \/ Notify
    \/ SendMsg
    \/ SendPhoto
    \/ Handler
    \/ Finally
    \/ PwExit

Spec == Init /\ [][Next]_vars

(* ------------------------- the codec run alone ------------------------ *)
CodecAlphabet == {"a", ";", "=", " "}

\* the strings over the alphabet of length at most n
StringsUpTo(n) == UNION {[1..k -> CodecAlphabet] : k \in 0..n}

\* cookie names and values: empty, each single character, a leading blank,
\* an inner blank
CodecFields ==
    {<<>>} \cup {<<c>> : c \in CodecAlphabet} \cup {<<" ", "a">>, <<"a", " ", "a">>}

\* cookie records of the target domain
DomainRecords ==
    [name : CodecFields, value : CodecFields,
     domain : {CookieDomain}, path : {<<"/">>}]

RecordLists == UNION {[1..k -> DomainRecords] : k \in 0..MaxRecords}

\* format_cookies(records)
FormatCookies ==
    /\ pc = "format"
    /\ new_cookie_string' = format_cookies(jar)
    /\ pc' = "reparse"
    /\ UNCHANGED <<envVars, decoded, exc, raisedAt, exitCode, browserVars, loginVars,
                   login_page, login_success, key_data, msg_sent, photo_sent, events>>

\* parse_cookies(format_cookies(records))
ReparseCookies ==
    /\ pc = "reparse"
    /\ decoded' = parse_cookies(new_cookie_string)
    /\ pc' = "codec_done"
    /\ UNCHANGED <<envVars, exc, raisedAt, exitCode, browserVars, loginVars,
                   mainVars, events>>

\* parse_cookies(cookie_string)
ParseCookies ==
    /\ pc = "parse"
    /\ decoded' = parse_cookies(cookie_string)
    /\ pc' = "codec_done"
    /\ UNCHANGED <<envVars, exc, raisedAt, exitCode, browserVars, loginVars,
                   mainVars, events>>

CodecNext ==
    \/ FormatCookies
    \/ ReparseCookies
    \/ ParseCookies

\* either a list of records to encode and decode again, or a string to decode
CodecInit ==
    /\ \/ /\ jar \in RecordLists
          /\ cookie_string = None
          /\ pc = "format"
       \/ /\ jar = <<>>
          /\ cookie_string \in StringsUpTo(MaxRawLen)
          /\ pc = "parse"
    /\ repo_token = None /\ repo = <<>> /\ tg_bot_token = None /\ tg_chat_id = None
    /\ max_retries = DefaultMaxRetries
    /\ exc = "none" /\ raisedAt = {} /\ exitCode = -1
    /\ browser = "none" /\ hasContext = FALSE
    /\ openPages = {} /\ nextPageId = 1
    /\ attempt = 0 /\ page = 0 /\ ret = [page |-> 0, ok |-> FALSE]
    /\ urls = <<>> /\ outcomes = <<>> /\ sleeps = <<>>
    /\ login_page = 0 /\ login_success = FALSE /\ new_cookie_string = <<>>
    /\ key_data = "none" /\ msg_sent = "unset" /\ photo_sent = "unset"
    /\ events = <<>>
    /\ decoded = <<>>

CodecSpec == CodecInit /\ [][CodecNext]_vars

(* ----------------------------- properties ----------------------------- *)
\* number of recorded calls of one kind
Count(kind) == Cardinality({i \in 1..Len(events) : events[i].kind = kind})

\* the kinds of the recorded calls, in order
Kinds == [i \in 1..Len(events) |-> events[i].kind]

\* the text messages sent so far, in order
Texts == SelectSeq(events, LAMBDA e : e.kind = "text")

FailedOutcome(o) == o \in {"redirected", "errored"}

\* C1: when the first authenticated outcome is at position k+1 (0 <= k <= N)
\* after k redirects or navigation errors, login_with_cookie has made exactly
\* k+1 attempts (new page + navigation), has slept 5, 10, ..., 5k seconds in
\* that order, and returns (page, True) with the page of attempt k+1, still
\* open; no attempt follows an authenticated outcome.
C1_FirstSuccessReturns ==
    /\ \A i \in 1..Len(outcomes) :
          outcomes[i] = "authenticated" =>
             /\ i = Len(outcomes)
             /\ pc = "login_return"
             /\ ret.ok
    /\ (pc = "login_return" /\ ret.ok) =>
          LET k == Len(outcomes) - 1
          IN  /\ k >= 0 /\ k <= max_retries
              /\ outcomes[k + 1] = "authenticated"
              /\ \A i \in 1..k : FailedOutcome(outcomes[i])
              /\ Count("goto") = k + 1
              /\ Count("new_page") = k + 1
              /\ sleeps = [i \in 1..k |-> 5 * i]
              /\ ret.page = page
              /\ ret.page = nextPageId - 1
              /\ ret.page \in openPages

C1_Witness ==
    /\ pc = "login_return" /\ ret.ok
    /\ max_retries = 2
    /\ outcomes = <<"redirected", "redirected", "authenticated">>
    /\ sleeps = <<5, 10>>
    /\ Count("goto") = 3
    /\ openPages = {3} /\ ret.page = 3

\* C2: when every attempt fails (redirect or navigation error, in any mix),
\* exactly max_retries + 1 attempts occur, the flag returned is False and the
\* page returned is a defined, open page created after all attempt pages,
\* none of which is still open.
C2_ExhaustedReturnsFreshPage ==
    /\ Len(outcomes) <= max_retries + 1
    /\ (pc = "login_return" /\ \A i \in 1..Len(outcomes) : FailedOutcome(outcomes[i])) =>
          /\ Len(outcomes) = max_retries + 1
          /\ Count("goto") = max_retries + 1
          /\ ~ret.ok
          /\ ret.page # 0
          /\ ret.page \in openPages
          /\ ret.page # page
          /\ ret.page = max_retries + 2
          /\ \A q \in 1..(max_retries + 1) : q \notin openPages

C2_Witness ==
    /\ pc = "login_return" /\ ~ret.ok
    /\ max_retries = 2
    /\ outcomes = <<"redirected", "errored", "redirected">>
    /\ ret.page = 4 /\ openPages = {4}

\* C3: in a run of main where the credential is present and every validation
\* attempt fails, no screenshot is taken, the secret store sees no GET and no
\* PUT, no image is sent, exactly one text message, a failure message, is sent
\* when the notifier is configured (none otherwise), and the exit code is 1.
C3_ScenarioB ==
    (/\ pc = "done"
     /\ Len(outcomes) = max_retries + 1
     /\ \A i \in 1..Len(outcomes) : FailedOutcome(outcomes[i])) =>
        /\ Count("screenshot") = 0
        /\ Count("get") = 0 /\ Count("put") = 0
        /\ Count("photo") = 0
        /\ Len(Texts) = (IF NotifierConfigured THEN 1 ELSE 0)
        /\ \A i \in 1..Len(Texts) :
              Texts[i].message = (IF raisedAt \cap {"close_errored", "exhausted"} = {}
                                  THEN "login_failed" ELSE "exec_failed")
        /\ exitCode = 1

C3_Witness ==
    /\ pc = "done"
    /\ outcomes = <<"redirected", "redirected", "redirected">>
    /\ NotifierConfigured
    /\ Len(Texts) = 1 /\ Texts[1].message = "login_failed"
    /\ Count("screenshot") = 0 /\ Count("get") = 0
    /\ browser = "closed"
    /\ exitCode = 1

\* no external call failed: nothing raised and both notifier calls, if made,
\* returned True
NoCallFailed == raisedAt = {} /\ msg_sent # "False" /\ photo_sent # "False"

\* C4: in a run of main where the credential is valid on the first attempt,
\* token and 'owner/name' repository are configured, the re-encoded harvested
\* cookie string is non-empty, the notifier is configured and no external call
\* fails, the calls are, once each and in this order: screenshot, GET and PUT
\* of the secret (the PUT carrying the cookies of the context after the
\* navigation), text message, image; then browser.close(), and exit code 0.
C4_ScenarioA ==
    (/\ pc = "done"
     /\ outcomes = <<"authenticated">>
     /\ Truthy(repo_token)
     /\ Len(Split(repo, "/")) = 2
     /\ format_cookies(jar) # <<>>
     /\ NotifierConfigured
     /\ NoCallFailed) =>
        /\ Kinds = <<"launch", "add_cookies", "new_page", "goto", "screenshot",
                     "get", "put", "text", "photo", "browser_close", "playwright_stop">>
        /\ events[5].page = ret.page
        /\ events[7].encrypted_value.plaintext = format_cookies(jar)
        /\ events[8].message = "success"
        /\ browser = "closed"
        /\ exitCode = 0

C4_Witness ==
    /\ pc = "done"
    /\ outcomes = <<"authenticated">>
    /\ cookie_string = <<"s", "=", "1">>
    /\ Count("put") = 1
    /\ \E i \in 1..Len(events) :
          /\ events[i].kind = "put"
          /\ events[i].encrypted_value.plaintext = <<"s", "=", "9">>
    /\ Count("screenshot") = 1 /\ Count("text") = 1 /\ Count("photo") = 1
    /\ NoCallFailed
    /\ exitCode = 0

\* C5: update_github_secret is invoked at most once in a run, and only after
\* a successful validation with a non-empty token, a non-empty repository
\* setting and a non-empty re-encoded harvested cookie string; without a
\* token it is never invoked, and a run whose validation succeeded and in
\* which nothing raised still reaches the notification and exits with 0.
C5_PublishGating ==
    /\ Count("get") <= 1 /\ Count("put") <= 1
    /\ Count("put") <= Count("get")
    /\ Count("get") = 1 =>
          /\ login_success
          /\ Truthy(repo_token)
          /\ Truthy(repo)
          /\ new_cookie_string # <<>>
          /\ new_cookie_string = format_cookies(jar)
    /\ (pc = "done" /\ ~Truthy(repo_token) /\ login_success /\ raisedAt = {}) =>
          /\ Count("get") = 0
          /\ Len(Texts) = (IF NotifierConfigured THEN 1 ELSE 0)
          /\ \A i \in 1..Len(Texts) : Texts[i].message = "success"
          /\ exitCode = 0

C5_Witness ==
    /\ pc = "done"
    /\ login_success
    /\ ~Truthy(repo_token)
    /\ repo = <<"o", "/", "r">>
    /\ new_cookie_string # <<>>
    /\ NotifierConfigured
    /\ Count("get") = 0 /\ Count("put") = 0
    /\ Len(Texts) = 1 /\ Texts[1].message = "success"
    /\ exitCode = 0

\* C6: on every exit path of main after the browser has been launched,
\* browser.close() has been executed before the process terminates.
C6_BrowserCloseOnEveryExit ==
    (pc = "done" /\ browser # "none") => Count("browser_close") >= 1

\* the steps whose exceptions the exit-code rule names: browser launch,
\* context creation, login_with_cookie, screenshot, cookie harvest, split of
\* the repository string, secret update
NamedSteps ==
    {"launch", "new_context", "add_cookies", "new_page", "close_errored",
     "exhausted", "screenshot", "harvest", "split", "gh_get", "gh_put"}

\* the release steps: browser.close() and the end of the with block
CleanupSteps == {"finally", "pw_exit"}

RetriesExhausted ==
    /\ Len(outcomes) = max_retries + 1
    /\ \A i \in 1..Len(outcomes) : FailedOutcome(outcomes[i])

\* the cases in which the exit code is 1
ExitOneCases ==
    /\ exitCode \in {0, 1}
    /\ ~Truthy(cookie_string) => exitCode = 1
    /\ RetriesExhausted => exitCode = 1
    /\ raisedAt \cap NamedSteps # {} => exitCode = 1

\* C7 as stated: every run ends with 0 or 1; 1 for a missing credential,
\* exhausted retries or a raising step; 0 exactly when validation succeeded
\* and none of the named steps raised.
C7_ExitCodeAsStated ==
    pc = "done" =>
        /\ ExitOneCases
        /\ exitCode = 0 <=> (ret.ok /\ raisedAt \cap NamedSteps = {})

\* C7 (amended): every run ends with 0 or 1; 1 for a missing credential,
\* exhausted retries or a raising step; 0 exactly when validation succeeded
\* and neither a named step nor the release of the browser (browser.close(),
\* end of the with block) raised, whatever the notifier does.
C7_ExitCode ==
    pc = "done" =>
        /\ ExitOneCases
        /\ raisedAt \subseteq NamedSteps \cup CleanupSteps
        /\ exitCode = 0 <=> (ret.ok /\ raisedAt = {})

C7_Witness ==
    /\ pc = "done"
    /\ ret.ok
    /\ raisedAt = {}
    /\ msg_sent = "False" /\ photo_sent = "False"
    /\ exitCode = 0

\* C8: on the success path with the notifier configured the image is sent
\* right after the text message whether the text message succeeded or not,
\* no notifier call raises, and the exit code does not depend on the two
\* results.
C8_NotifierIsolation ==
    /\ raisedAt \cap {"login_failed", "send_msg", "send_photo", "handler"} = {}
    /\ \A i \in 1..Len(events) :
          (events[i].kind = "text" /\ events[i].message = "success"
              /\ pc \notin {"send_photo"}) =>
             /\ i < Len(events)
             /\ events[i + 1].kind = "photo"
    /\ msg_sent # "unset" => (NotifierConfigured /\ ret.ok)
    /\ (pc = "done" /\ msg_sent # "unset") =>
          /\ photo_sent # "unset"
          /\ exitCode = (IF raisedAt \cap CleanupSteps = {} THEN 0 ELSE 1)

C8_Witness ==
    /\ pc = "done"
    /\ msg_sent = "False"
    /\ photo_sent = "True"
    /\ Count("photo") = 1
    /\ exitCode = 0

\* C9: when validation succeeded and update_github_secret raises (GET or
\* PUT), the top-level handler sends exactly one failure text message if the
\* notifier is configured, neither the success report nor the image is sent,
\* browser.close() is executed and the exit code is 1.
C9_PublishFailureFatal ==
    /\ (raisedAt \cap {"gh_get", "gh_put"} # {} /\ pc \notin {"handler"}) =>
          /\ ret.ok
          /\ Len(Texts) = (IF NotifierConfigured THEN 1 ELSE 0)
          /\ \A i \in 1..Len(Texts) : Texts[i].message = "exec_failed"
          /\ Count("photo") = 0
          /\ pc \in {"finally", "pw_exit", "done"}
    /\ (raisedAt \cap {"gh_get", "gh_put"} # {} /\ pc = "done") =>
          /\ Count("browser_close") = 1
          /\ exitCode = 1

C9_Witness ==
    /\ pc = "done"
    /\ "gh_put" \in raisedAt
    /\ NotifierConfigured
    /\ Len(Texts) = 1 /\ Texts[1].message = "exec_failed"
    /\ Count("get") = 1 /\ Count("put") = 1
    /\ browser = "closed"
    /\ exitCode = 1

\* C10: without a session credential (unset or empty) main exits at once
\* with code 1: no browser launch, no navigation, no call to the secret
\* store, no notifier call, even with notifier and secret store configured.
C10_MissingCredential ==
    ~Truthy(cookie_string) =>
        /\ pc \in {"start", "done"}
        /\ events = <<>>
        /\ browser = "none" /\ ~hasContext /\ openPages = {}
        /\ pc = "done" => exitCode = 1

C10_Witness ==
    /\ pc = "done"
    /\ cookie_string = <<>>
    /\ NotifierConfigured
    /\ Truthy(repo_token) /\ repo = <<"o", "/", "r">>
    /\ events = <<>>
    /\ exitCode = 1

\* C11: one call of update_github_secret issues exactly one GET of the public
\* key and then at most one PUT; the PUT follows a successful GET and carries
\* the key_id (and a value sealed for the key) that this GET returned; a
\* failed GET is followed by no PUT; no request is repeated; the call returns
\* normally only after both requests succeeded and raises otherwise.
C11_PublishProtocol ==
    /\ Count("get") <= 1 /\ Count("put") <= 1
    /\ pc = "gh_put" => (Count("get") = 1 /\ Count("put") = 0 /\ key_data \in KeyIds)
    /\ \A i \in 1..Len(events) :
          events[i].kind = "put" =>
             /\ i > 1 /\ events[i - 1].kind = "get"
             /\ "gh_get" \notin raisedAt
             /\ key_data \in KeyIds
             /\ events[i].key_id = key_data
             /\ events[i].encrypted_value.sealed_for = key_data
             /\ events[i].encrypted_value.plaintext = new_cookie_string
    /\ "gh_get" \in raisedAt => Count("put") = 0
    /\ (Count("get") = 1 /\ pc \notin {"gh_get", "gh_put"}) =>
          \/ /\ raisedAt \cap {"gh_get", "gh_put"} = {}
             /\ Count("put") = 1
          \/ /\ raisedAt \cap {"gh_get", "gh_put"} # {}
             /\ Count("text") = Cardinality({i \in 1..Len(events) :
                    events[i].kind = "text" /\ events[i].message = "exec_failed"})
             /\ Count("photo") = 0

C11_Witness ==
    /\ pc = "notify"
    /\ Kinds = <<"launch", "add_cookies", "new_page", "goto", "screenshot", "get", "put">>
    /\ key_data = "k2"
    /\ events[7].key_id = "k2"
    /\ raisedAt = {}

\* the exit code as determined by the credential, the validation and the
\* exceptions alone
ExitWithoutNotifier ==
    IF Truthy(cookie_string) /\ ret.ok /\ raisedAt = {} THEN 0 ELSE 1

\* C12: when the bot token or the chat identifier is absent (unset or
\* empty), no text message and no image is sent on any path of main, and the
\* exit code is the one the credential, the validation and the exceptions
\* determine, the same as in the runs with the notifier configured.
C12_NotifierGating ==
    /\ (~Truthy(tg_bot_token) \/ ~Truthy(tg_chat_id)) =>
          /\ Count("text") = 0
          /\ Count("photo") = 0
          /\ msg_sent = "unset" /\ photo_sent = "unset"
          /\ pc \notin {"send_msg", "send_photo"}
    /\ pc = "done" => exitCode = ExitWithoutNotifier

C12_Witness ==
    /\ pc = "done"
    /\ tg_bot_token = <<"t">> /\ tg_chat_id = <<>>
    /\ "screenshot" \in raisedAt
    /\ events # <<>>
    /\ Count("text") = 0
    /\ exitCode = 1

\* the (name, value) pairs of a list of records
PairSet(rs) == {<<rs[i].name, rs[i].value>> : i \in 1..Len(rs)}

\* C13 as stated: for any records of the target domain, over names and
\* values that may contain ';', '=' and whitespace,
\* parse_cookies(format_cookies(records)) has the same (name, value) pairs.
C13_RoundTripAsStated ==
    (pc = "codec_done" /\ cookie_string = None) => PairSet(decoded) = PairSet(jar)

NoEdgeSpace(s) == s = <<>> \/ (s[1] # " " /\ s[Len(s)] # " ")

\* a name without ';' and '=', a value without ';', neither with leading or
\* trailing whitespace
HeaderSafe(c) ==
    /\ \A i \in 1..Len(c.name) : c.name[i] \notin {";", "="}
    /\ \A i \in 1..Len(c.value) : c.value[i] # ";"
    /\ NoEdgeSpace(c.name) /\ NoEdgeSpace(c.value)

\* C13 (amended): for records of the target domain whose names contain no
\* ';' and no '=', whose values contain no ';', and whose names and values
\* have no leading or trailing whitespace,
\* parse_cookies(format_cookies(records)) has the same (name, value) pairs,
\* in the same order.
C13_RoundTrip ==
    (/\ pc = "codec_done" /\ cookie_string = None
     /\ \A i \in 1..Len(jar) : HeaderSafe(jar[i])) =>
        /\ PairSet(decoded) = PairSet(jar)
        /\ Len(decoded) = Len(jar)
        /\ \A i \in 1..Len(jar) :
              decoded[i].name = jar[i].name /\ decoded[i].value = jar[i].value

C13_Witness ==
    /\ pc = "codec_done" /\ cookie_string = None
    /\ Len(jar) = 2
    /\ jar[1].name = <<"a">> /\ jar[1].value = <<"=">>
    /\ jar[2].name = <<>> /\ jar[2].value = <<"a">>
    /\ new_cookie_string = <<"a", "=", "=", ";", " ", "=", "a">>
    /\ PairSet(decoded) = PairSet(jar)

\* the positions that delimit the ';'-separated segments of raw
Cuts(raw) == {0, Len(raw) + 1} \cup {i \in 1..Len(raw) : raw[i] = ";"}

\* the k-th delimiter, counted from 0
NthCut(raw, k) ==
    CHOOSE c \in Cuts(raw) : Cardinality({d \in Cuts(raw) : d < c}) = k

\* the k-th segment, counted from 1
Segment(raw, k) == SubSeq(raw, NthCut(raw, k - 1) + 1, NthCut(raw, k) - 1)

\* s without its leading and trailing blanks
Trimmed(s) ==
    LET solid == {i \in 1..Len(s) : s[i] # " "}
    IN  IF solid = {} THEN <<>>
        ELSE SubSeq(s, CHOOSE i \in solid : \A j \in solid : i <= j,
                       CHOOSE i \in solid : \A j \in solid : i >= j)

\* the record a segment with an '=' stands for
RecordOf(seg) ==
    LET e == CHOOSE i \in 1..Len(seg) : seg[i] = "=" /\ \A j \in 1..(i - 1) : seg[j] # "="
    IN  [name |-> Trimmed(SubSeq(seg, 1, e - 1)),
         value |-> Trimmed(SubSeq(seg, e + 1, Len(seg))),
         domain |-> <<".", "z", "e", "a", "b", "u", "r", ".", "c", "o", "m">>,
         path |-> <<"/">>]

\* C14: for every input string parse_cookies returns (without raising), in
\* encounter order, one record per ';'-separated segment that contains an
\* '=' (name = trimmed text before the first '=', value = trimmed text after
\* it, domain '.zeabur.com', path '/'); other segments give no record.
C14_DecodeTolerance ==
    (pc = "codec_done" /\ cookie_string # None) =>
        LET raw == cookie_string
            n == Cardinality(Cuts(raw)) - 1
            withEq == {k \in 1..n : \E i \in 1..Len(Segment(raw, k)) : Segment(raw, k)[i] = "="}
        IN  /\ Len(decoded) = Cardinality(withEq)
            /\ \A k \in withEq :
                  decoded[Cardinality({j \in withEq : j <= k})] = RecordOf(Segment(raw, k))

C14_Witness ==
    /\ pc = "codec_done"
    /\ cookie_string = <<"a", ";", " ", "=", "a">>
    /\ Len(decoded) = 1
    /\ decoded[1].name = <<>> /\ decoded[1].value = <<"a">>

RECURSIVE SumSeq(_)
SumSeq(q) == IF q = <<>> THEN 0 ELSE Head(q) + SumSeq(Tail(q))

\* the number of calls of one kind among the first n recorded calls
CountBefore(kind, n) == Cardinality({j \in 1..(n - 1) : events[j].kind = kind})

\* C15: in login_with_cookie a sleep happens only between a failed attempt
\* (after its page.close()) and the next attempt: never before the first
\* attempt, never after a successful attempt, never after the final failed
\* attempt; the sleep after the i-th failed attempt lasts 5*i seconds; an
\* exhausted run sleeps max_retries times, 5*N*(N+1)/2 seconds in total, and
\* not at all when max_retries = 0.
C15_BackoffPlacement ==
    /\ Len(sleeps) = Count("sleep")
    /\ Len(sleeps) <= max_retries
    /\ \A m \in 1..Len(sleeps) : sleeps[m] = 5 * m
    /\ \A i \in 1..Len(events) :
          events[i].kind = "sleep" =>
             /\ i > 1 /\ events[i - 1].kind = "page_close"
             /\ CountBefore("goto", i) = CountBefore("sleep", i) + 1
             /\ FailedOutcome(outcomes[CountBefore("goto", i)])
             /\ IF i < Len(events)
                THEN events[i + 1].kind = "new_page"
                ELSE pc \in {"new_page", "login_raised"}
    /\ pc = "exhausted" => events[Len(events)].kind = "page_close"
    /\ (pc = "login_return" /\ ret.ok) =>
          /\ events[Len(events)].kind = "goto"
          /\ Len(sleeps) = Len(outcomes) - 1
    /\ (pc = "login_return" /\ ~ret.ok) =>
          /\ events[Len(events) - 1].kind = "page_close"
          /\ Len(sleeps) = max_retries
          /\ SumSeq(sleeps) = (5 * max_retries * (max_retries + 1)) \div 2

C15_Witness ==
    /\ pc = "login_return" /\ ~ret.ok
    /\ max_retries = 3
    /\ sleeps = <<5, 10, 15>>
    /\ SumSeq(sleeps) = 30

\* C16: login_with_cookie never has more than one page open; the page of a
\* failed attempt (redirected, or navigation raised) is closed before the
\* backoff sleep and before the next page is opened; when it returns, the
\* returned page is the only open page.
C16_NoLeakedPages ==
    /\ Cardinality(openPages) <= 1
    /\ pc \in {"goto", "close_redirected", "close_errored"} => openPages = {page}
    /\ pc \in {"backoff", "new_page", "exhausted"} => openPages = {}
    /\ pc = "backoff" =>
          /\ FailedOutcome(outcomes[Len(outcomes)])
          /\ events[Len(events)].kind = "page_close"
          /\ page \notin openPages
    /\ pc = "login_return" => openPages = {ret.page}

C16_Witness ==
    /\ pc = "login_return" /\ ret.ok
    /\ outcomes = <<"errored", "redirected", "authenticated">>
    /\ Count("page_close") = 2
    /\ openPages = {3}

\* C17: an exception raised by any step of main after the precondition check
\* (browser launch, context creation, login_with_cookie, screenshot, cookie
\* harvest, secret update) is handled once at the top level: one failure text
\* message is sent when the notifier is configured, the browser is released
\* with browser.close(), and the exit code is 1.
C17_TopLevelReporting ==
    (pc = "done" /\ raisedAt \cap (NamedSteps \ {"split"}) # {}) =>
        /\ exitCode = 1
        /\ Len(Texts) = (IF NotifierConfigured THEN 1 ELSE 0)
        /\ \A i \in 1..Len(Texts) : Texts[i].message = "exec_failed"
        /\ browser # "none" => Count("browser_close") = 1

C19_InjectionOrdering ==
    /\ Count("add_cookies") <= 1
    /\ pc \notin {"add_cookies", "login_raised"} => Count("add_cookies") = 1
    /\ \A i \in 1..Len(events) :
          events[i].kind \in {"new_page", "goto"} =>
             \E j \in 1..(i - 1) : events[j].kind = "add_cookies"
    /\ pc = "goto" =>
          LET injected == parse_cookies(cookie_string)
          IN  \A k \in 1..Len(injected) :
                 \E j \in 1..Len(jar) :
                    /\ jar[j].name = injected[k].name
                    /\ jar[j].domain = injected[k].domain

C19_Witness ==
    /\ pc = "goto"
    /\ cookie_string = <<" ", "s", "=", "1", ";", "u", "=", "2", ";">>
    /\ Count("goto") = 2
    /\ Count("add_cookies") = 1
    /\ events[1].kind = "add_cookies"
    /\ Len(jar) >= 2

SuccessReported ==
    \/ \E i \in 1..Len(events) : events[i].kind = "text" /\ events[i].message = "success"
    \/ Count("photo") > 0

FailureReported ==
    \E i \in 1..Len(events) :
        events[i].kind = "text" /\ events[i].message \in {"login_failed", "exec_failed"}

\* C20 as stated: at most one text message is sent in a run; the success
\* report and the image are sent only in runs that end with exit code 0, a
\* failure message only in runs that end with exit code 1.
C20_SingleReportAsStated ==
    /\ Len(Texts) <= 1
    /\ pc = "done" =>
          /\ SuccessReported => exitCode = 0
          /\ FailureReported => exitCode = 1

\* C20 (amended): at most one text message is sent in a run, so never both
\* a success and a failure report; a failure message is sent only in runs
\* that end with exit code 1; the success report and the image are sent only
\* after a successful validation with no exception before the notification,
\* and such a run ends with exit code 0 unless the release of the browser
\* (browser.close(), end of the with block) raises afterwards, when it ends
\* with 1.
C20_SingleReport ==
    /\ Len(Texts) <= 1
    /\ Count("photo") <= 1
    /\ ~(SuccessReported /\ FailureReported)
    /\ Count("photo") = 1 =>
          \E i \in 1..Len(events) : events[i].kind = "text" /\ events[i].message = "success"
    /\ SuccessReported => (ret.ok /\ raisedAt \subseteq CleanupSteps)
    /\ pc = "done" =>
          /\ FailureReported => exitCode = 1
          /\ SuccessReported => exitCode = (IF raisedAt = {} THEN 0 ELSE 1)

C20_Witness ==
    /\ pc = "done"
    /\ Len(Texts) = 1 /\ Texts[1].message = "success" /\ Texts[1].ok
    /\ Count("photo") = 1
    /\ Count("put") = 1
    /\ ~FailureReported
    /\ exitCode = 0

====
